---- MODULE Spec2Model ----
(***************************************************************************)
(* Dialog text of cat-thief-game: the markup parser of                     *)
(* src/model/pretty_string.rs and the line-wrap layout of                  *)
(* src/drawable/dialog.rs.                                                 *)
(*                                                                         *)
(* A string is a sequence of one-character strings.  SpecParse runs        *)
(* parser::parse token by token on one input; SpecLayout runs the layout   *)
(* fold of DialogDrawable::render piece by piece, and the wrap scan loop   *)
(* iteration by iteration, on one styled text.                             *)
(***************************************************************************)
EXTENDS Integers, Sequences, FiniteSets, TLC

\* ------------------------------------------------------------------ bounds
MaxInput == 5      \* longest enumerated markup string
MaxLen == 3        \* most characters in an enumerated styled text
MaxRuns == 2       \* most runs in an enumerated styled text
MaxW == 4          \* widest enumerated max_width
MaxLines == 12     \* cap on the Vec<Line> (only a scan that never ends gets there)

VARIABLES
  \* parser::parse
  rule_table,   \* the rule table the parse looks names up in
  input,        \* the string handed to parse
  string,       \* tokenize: the part of the input not yet consumed
  tokens,       \* history: the tokens the generator has yielded so far
  segments,     \* parse: the finished runs
  rules,        \* parse: the stack of open rule names
  segment,      \* parse: the text buffer
  result,       \* "Running", "Ok", or the panic that ended the parse
  \* DialogDrawable::render
  message,      \* the styled text laid out (segments.0 of line 79)
  max_width,    \* line 65
  kerned,       \* the measurement oracle in use (see measure_text)
  i,            \* fold: index of the next piece
  lines,        \* fold: the Vec<Line> accumulator
  start,        \* wrap scan
  end,          \* wrap scan
  pc,           \* "idle", "fold", "scan", "done", "drawn"
  origin,       \* history: for each line, the piece index of each of its fragments
  dialog,       \* self.message: the whole styled text of the dialog
  index,        \* self.index: the reveal cursor, Some(n) or NoIndex
  drawn,        \* the canvas.draw_text calls of the draw loop, in order
  previous,     \* history: the lines of the previous render call
  \* Attributes::override_with
  operands,     \* three styles A, B, C
  composed      \* the compositions computed from them so far

parseVars == <<rule_table, input, string, tokens, segments, rules, segment, result>>
layoutVars == <<message, max_width, kerned, i, lines, start, end, pc, origin>>
frameVars == <<dialog, index, drawn, previous>>
styleVars == <<operands, composed>>
vars == <<rule_table, input, string, tokens, segments, rules, segment, result,
          message, max_width, kerned, i, lines, start, end, pc, origin,
          dialog, index, drawn, previous, operands, composed>>

\* ---------------------------------------------------------------- helpers
RECURSIVE SeqsUpTo(_, _)
SeqsUpTo(S, n) ==
  IF n = 0 THEN {<<>>}
  ELSE LET shorter == SeqsUpTo(S, n - 1)
       IN shorter \cup {Append(s, c) : s \in {t \in shorter : Len(t) = n - 1}, c \in S}

RECURSIVE Concat(_)
Concat(ss) == IF ss = <<>> THEN <<>> ELSE Head(ss) \o Concat(Tail(ss))

RECURSIVE SumSeq(_)
SumSeq(ns) == IF ns = <<>> THEN 0 ELSE Head(ns) + SumSeq(Tail(ns))

Max(a, b) == IF a >= b THEN a ELSE b

Last(s) == s[Len(s)]

Front(s) == SubSeq(s, 1, Len(s) - 1)

\* text[a..b] of Rust, on 0-based byte offsets
Slice(text, a, b) == SubSeq(text, a + 1, b)

\* ============================================================ pretty_string
None == "None"

Attributes(font, color) == [font |-> font, color |-> color]

DefaultAttributes == Attributes(None, None)

\* Option::or
Or(a, b) == IF a # None THEN a ELSE b

\* mutant: the receiver wins over the argument
override_keeping(self, other) ==
  Attributes(Or(self.font, other.font), Or(self.color, other.color))

override_with(self, other) ==
  Attributes(Or(other.font, self.font), Or(other.color, self.color))

\* the rule table of the source: one rule, "blue"
RULES == [name \in {<<"b", "l", "u", "e">>} |-> Attributes(None, "BLUE")]

\* the rule table of the nesting example: a sets the color, b sets the font
NestRules ==
  [name \in {<<"a">>, <<"b">>} |->
     IF name = <<"a">> THEN Attributes(None, "RED") ELSE Attributes("F", None)]

\* enum State
Start == [s |-> "Start", st |-> <<>>]
Open(st) == [s |-> "Open", st |-> st]
DoubleOpen == [s |-> "DoubleOpen", st |-> <<>>]
Close == [s |-> "Close", st |-> <<>>]
OpenClose == [s |-> "OpenClose", st |-> <<>>]

\* enum Token
StartSegment(name) == [t |-> "StartSegment", v |-> name]
EndSegment == [t |-> "EndSegment", v |-> <<>>]
Text(text) == [t |-> "Text", v |-> text]

Yield(token, rest) == [panic |-> None, token |-> token, rest |-> rest]
Panic(what) == [panic |-> what, token |-> EndSegment, rest |-> <<>>]

\* mutant: the empty rule name is let through
MissingNameIgnored(st, ch) == FALSE

\* the guard of the panic arm of lmm: `(Open(ref st), ':') if st.is_empty()`
MissingName(st, ch) == ch = ":" /\ st = <<>>

\* lmm: `&text[1..]` and `.nth(0).unwrap()` come before the match, so an
\* empty text panics in every state
RECURSIVE lmm(_, _)
lmm(text, state) ==
  IF text = <<>> THEN Panic("SliceOutOfBounds")
  ELSE
    LET rest == Tail(text)
        ch == Head(text)
    IN IF state.s = "Start" /\ ch = "<" THEN lmm(rest, Open(<<>>))
       ELSE IF state.s = "Start" /\ ch = ">" THEN lmm(rest, Close)
       ELSE IF state.s = "Start" THEN Yield(Text(<<ch>>), rest)
       ELSE IF state.s = "Open" /\ ch = "<" /\ state.st = <<>> THEN lmm(rest, DoubleOpen)
       ELSE IF state.s = "Open" /\ ch = ">" /\ state.st = <<>> THEN lmm(rest, OpenClose)
       ELSE IF state.s = "Open" /\ MissingName(state.st, ch) THEN Panic("MalformedMarkup")
       ELSE IF state.s = "Open" /\ ch = ":" THEN Yield(StartSegment(state.st), rest)
       ELSE IF state.s = "Open" THEN lmm(rest, Open(Append(state.st, ch)))
       ELSE IF state.s = "Close" THEN Yield(EndSegment, text)
       ELSE IF state.s = "DoubleOpen" THEN Yield(Text(<<"<">>), text)
       ELSE Yield(Text(<<">">>), text)

\* resolve_rules: the fold, or the panic of `.expect` on the first missing rule
RECURSIVE resolve_fold(_, _, _)
resolve_fold(table, rs, attrs) ==
  IF rs = <<>> THEN [panic |-> None, attrs |-> attrs]
  ELSE IF Head(rs) \notin DOMAIN table THEN [panic |-> "UnknownRule", attrs |-> attrs]
  ELSE resolve_fold(table, Tail(rs), override_with(attrs, table[Head(rs)]))

resolve_rules(table, rs) == resolve_fold(table, rs, DefaultAttributes)

Run(text, attrs) == [text |-> text, attributes |-> attrs]

\* mutant: the flush forgets the open rules
FlushUnstyled(table, segs, seg, rs) ==
  IF seg = <<>> THEN [panic |-> None, segments |-> segs]
  ELSE [panic |-> None, segments |-> Append(segs, Run(seg, DefaultAttributes))]

\* the `if !segment.is_empty() { segments.push(..) }` of parse
Flush(table, segs, seg, rs) ==
  IF seg = <<>> THEN [panic |-> None, segments |-> segs]
  ELSE LET r == resolve_rules(table, rs)
       IN IF r.panic # None THEN [panic |-> r.panic, segments |-> segs]
          ELSE [panic |-> None, segments |-> Append(segs, Run(seg, r.attrs))]

\* mutant: the length counts the runs
lenOfRuns(ps) == Len(ps)

\* PrettyString::len
RECURSIVE len(_)
len(ps) == IF ps = <<>> THEN 0 ELSE Len(Head(ps).text) + len(Tail(ps))

\* ------------------------------------------------------------ parse inputs
MarkupChars == {"<", ">", ":", "a", "b"}

TaggedBlue == <<"<", "b", "l", "u", "e", ":", "x", ">">>
NestExample == <<"<", "a", ":", "<", "b", ":", "X", ">", "Y", ">">>
TaggedUnknown == <<"<", "u", "n", "k", "n", "o", "w", "n", ":", "x", ">">>

UnclosedBlue == <<"<", "b", "l", "u", "e", ":", "a", "b", "c">>
LenExample == <<"a", "b", "<", "r", "e", "d", ":", "c", "d", ">", "e", "f">>

\* the rule table of the length example: the source's table with a rule red
RedRules ==
  [name \in {<<"b", "l", "u", "e">>, <<"r", "e", "d">>} |->
     IF name = <<"r", "e", "d">> THEN Attributes(None, "RED") ELSE Attributes(None, "BLUE")]

ParseInputs ==
  SeqsUpTo(MarkupChars, MaxInput) \cup {TaggedBlue, NestExample, TaggedUnknown, UnclosedBlue}

\* Option<usize>: None is the empty sequence, Some(n) the sequence of n alone
NoIndex == <<>>

Some(n) == <<n>>

LayoutIdle ==
  /\ message = <<>>
  /\ max_width = 0
  /\ kerned = FALSE
  /\ i = 1
  /\ lines = <<>>
  /\ start = 0
  /\ end = 0
  /\ pc = "idle"
  /\ origin = <<>>
  /\ dialog = <<>>
  /\ index = NoIndex
  /\ drawn = <<>>
  /\ previous = <<>>

StyleIdle ==
  /\ operands = <<DefaultAttributes, DefaultAttributes, DefaultAttributes>>
  /\ composed = [pair |-> <<>>, left |-> <<>>, right |-> <<>>]

InitParse ==
  /\ \/ /\ rule_table \in {RULES, NestRules}
        /\ input \in ParseInputs
     \/ /\ rule_table = RedRules
        /\ input = LenExample
  /\ string = input
  /\ tokens = <<>>
  /\ segments = <<>>
  /\ rules = <<>>
  /\ segment = <<>>
  /\ result = "Running"
  /\ LayoutIdle
  /\ StyleIdle

\* one turn of `for token in tokenize(string)`, by the token lmm yields
NextToken == lmm(string, Start)

TokenizerPanic ==
  /\ result = "Running"
  /\ string # <<>>
  /\ NextToken.panic # None
  /\ result' = NextToken.panic
  /\ UNCHANGED <<rule_table, input, string, tokens, segments, rules, segment>>
  /\ UNCHANGED <<layoutVars, frameVars, styleVars>>

OnStartSegment ==
  /\ result = "Running"
  /\ string # <<>>
  /\ NextToken.panic = None
  /\ NextToken.token.t = "StartSegment"
  /\ tokens' = Append(tokens, NextToken.token)
  /\ string' = NextToken.rest
  /\ LET f == Flush(rule_table, segments, segment, rules)
     IN IF f.panic # None
        THEN /\ result' = f.panic
             /\ UNCHANGED <<segments, rules, segment>>
        ELSE /\ segments' = f.segments
             /\ segment' = <<>>
             /\ rules' = Append(rules, NextToken.token.v)
             /\ UNCHANGED result
  /\ UNCHANGED <<rule_table, input>>
  /\ UNCHANGED <<layoutVars, frameVars, styleVars>>

OnEndSegment ==
  /\ result = "Running"
  /\ string # <<>>
  /\ NextToken.panic = None
  /\ NextToken.token.t = "EndSegment"
  /\ tokens' = Append(tokens, NextToken.token)
  /\ string' = NextToken.rest
  /\ LET f == Flush(rule_table, segments, segment, rules)
     IN IF f.panic # None
        THEN /\ result' = f.panic
             /\ UNCHANGED <<segments, rules, segment>>
        ELSE IF rules = <<>>
        THEN /\ result' = "UnbalancedClose"
             /\ segments' = f.segments
             /\ segment' = <<>>
             /\ UNCHANGED rules
        ELSE /\ segments' = f.segments
             /\ segment' = <<>>
             /\ rules' = Front(rules)
             /\ UNCHANGED result
  /\ UNCHANGED <<rule_table, input>>
  /\ UNCHANGED <<layoutVars, frameVars, styleVars>>

OnText ==
  /\ result = "Running"
  /\ string # <<>>
  /\ NextToken.panic = None
  /\ NextToken.token.t = "Text"
  /\ tokens' = Append(tokens, NextToken.token)
  /\ string' = NextToken.rest
  /\ segment' = segment \o NextToken.token.v
  /\ UNCHANGED <<rule_table, input, segments, rules, result>>
  /\ UNCHANGED <<layoutVars, frameVars, styleVars>>

\* the tail of parse, once the token stream is exhausted
EndOfInput ==
  /\ result = "Running"
  /\ string = <<>>
  /\ LET f == Flush(rule_table, segments, segment, rules)
     IN IF f.panic # None
        THEN /\ result' = f.panic
             /\ UNCHANGED segments
        ELSE /\ result' = "Ok"
             /\ segments' = f.segments
  /\ UNCHANGED <<rule_table, input, string, tokens, rules, segment>>
  /\ UNCHANGED <<layoutVars, frameVars, styleVars>>

NextParse ==
  \/ TokenizerPanic
  \/ OnStartSegment
  \/ OnEndSegment
  \/ OnText
  \/ EndOfInput

SpecParse == InitParse /\ [][NextParse]_vars

\* ================================================================== dialog
\* canvas.measure_text, the oracle: deterministic; characters differ in width
\* and height, and under the kerned font a "b" right after an "a" is drawn
\* one unit closer, so widths are not additive.  The empty text has width 0
\* and the height of the font.
CharWidth(c) == IF c = "b" THEN 2 ELSE 1

CharHeight(c) == IF c = "b" THEN 2 ELSE 1

RECURSIVE KernPairs(_)
KernPairs(text) ==
  IF Len(text) < 2 THEN 0
  ELSE (IF text[1] = "a" /\ text[2] = "b" THEN 1 ELSE 0) + KernPairs(Tail(text))

RECURSIVE TextWidth(_)
TextWidth(text) == IF text = <<>> THEN 0 ELSE CharWidth(Head(text)) + TextWidth(Tail(text))

RECURSIVE TextHeight(_)
TextHeight(text) == IF text = <<>> THEN 1 ELSE Max(CharHeight(Head(text)), TextHeight(Tail(text)))

Dimen(width, height) == [width |-> width, height |-> height]

measure_text(kern, text) ==
  Dimen(TextWidth(text) - (IF kern THEN KernPairs(text) ELSE 0), TextHeight(text))

\* struct Line, and Line::default()
Line(height, width, segs) == [height |-> height, width |-> width, segments |-> segs]

LineDefault == Line(0, 0, <<>>)

Fragment(text, attributes, dimen) == [text |-> text, attributes |-> attributes, dimen |-> dimen]

\* text.split("\n")
RECURSIVE Split(_)
Split(text) ==
  IF \A k \in 1..Len(text) : text[k] # "\n" THEN <<text>>
  ELSE LET n == CHOOSE k \in 1..Len(text) :
                  text[k] = "\n" /\ \A j \in 1..(k - 1) : text[j] # "\n"
       IN <<SubSeq(text, 1, n - 1)>> \o Split(SubSeq(text, n + 1, Len(text)))

\* `i != len - 1`, on the 1-based position k among n sub-pieces
NewlineFlag(k, n) == k # n

\* the closure of flat_map: the sub-pieces of one run
RunPieces(run) ==
  LET ls == Split(run.text)
  IN [k \in 1..Len(ls) |->
        [text |-> ls[k], attributes |-> run.attributes, newline |-> NewlineFlag(k, Len(ls))]]

\* segments.0.iter().flat_map(..)
RECURSIVE Pieces(_)
Pieces(segs) == IF segs = <<>> THEN <<>> ELSE RunPieces(Head(segs)) \o Pieces(Tail(segs))

\* mutant: the exact fit counts as an overflow
OverflowsAtFit(line_width, width, maxw) == line_width + width >= maxw

\* line 100: the piece does not fit behind the current line
Overflows(line_width, width, maxw) == line_width + width > maxw

\* mutant: the scan forgets what the current line already holds
ScanFitsAlone(line_width, width, maxw) == width <= maxw

\* line 107: the candidate prefix fits behind the current line
ScanFits(line_width, width, maxw) == line_width + width <= maxw

\* lines 113-117 and 125-128: add a fragment to the last line
PushFragment(ls, text, attributes, dimen) ==
  LET cur == Last(ls)
  IN [ls EXCEPT ![Len(ls)] =
        Line(Max(cur.height, dimen.height),
             cur.width + dimen.width,
             Append(cur.segments, Fragment(text, attributes, dimen)))]

\* mutant: the newline flag is ignored
BreakNever(newline, ls) == ls

\* lines 130-132
BreakIf(newline, ls) == IF newline THEN Append(ls, LineDefault) ELSE ls

\* history: piece k has put a fragment on the last line, which is followed by
\* the new lines of ls
NoteFragment(og, k, ls) ==
  [og EXCEPT ![Len(og)] = Append(og[Len(og)], k)] \o [n \in 1..(Len(ls) - Len(og)) |-> <<>>]

\* ----------------------------------------------------------- layout inputs
LayoutChars == {"a", "b", "\n"}

BlueAttributes == Attributes(None, "BLUE")

LayoutStyles == {DefaultAttributes, BlueAttributes}

\* parse never flushes an empty buffer: the text of a run is not empty
LayoutTexts == SeqsUpTo(LayoutChars, MaxLen) \ {<<>>}

LayoutRuns == {Run(t, a) : t \in LayoutTexts, a \in LayoutStyles}

\* the styled texts of at most n runs and at most budget characters
RECURSIVE MessagesWithin(_, _)
MessagesWithin(n, budget) ==
  IF n = 0 THEN {<<>>}
  ELSE {<<>>} \cup
       UNION {{<<r>> \o m : m \in MessagesWithin(n - 1, budget - Len(r.text))} :
                r \in {q \in LayoutRuns : Len(q.text) <= budget}}

LayoutMessages == MessagesWithin(MaxRuns, MaxLen)

HelloWorld ==
  <<Run(<<"H", "e", "l", "l", "o", " ">>, DefaultAttributes),
    Run(<<"w", "o", "r", "l", "d">>, BlueAttributes)>>

HelloWidth == measure_text(FALSE, HelloWorld[1].text).width

ParseIdle ==
  /\ rule_table = RULES
  /\ input = <<>>
  /\ string = <<>>
  /\ tokens = <<>>
  /\ segments = <<>>
  /\ rules = <<>>
  /\ segment = <<>>
  /\ result = "Ok"

\* the state at line 90: the fold starts from vec![Line::default()]
InitLayout ==
  /\ \/ /\ message \in LayoutMessages
        /\ max_width \in 0..MaxW
        /\ kerned \in BOOLEAN
     \/ /\ message = HelloWorld
        /\ max_width = HelloWidth
        /\ kerned = FALSE
  /\ i = 1
  /\ lines = <<LineDefault>>
  /\ origin = <<<<>>>>
  /\ start = 0
  /\ end = 0
  /\ pc = "fold"
  /\ dialog = message
  /\ index = NoIndex
  /\ drawn = <<>>
  /\ previous = <<>>
  /\ ParseIdle
  /\ StyleIdle

Piece == Pieces(message)[i]

\* lines 124-133: the piece fits and goes whole on the current line
AppendPiece ==
  /\ pc = "fold"
  /\ i <= Len(Pieces(message))
  /\ LET d == measure_text(kerned, Piece.text)
     IN /\ ~Overflows(Last(lines).width, d.width, max_width)
        /\ lines' = BreakIf(Piece.newline, PushFragment(lines, Piece.text, Piece.attributes, d))
        /\ origin' = NoteFragment(origin, i, lines')
  /\ i' = i + 1
  /\ UNCHANGED <<message, max_width, kerned, start, end, pc>>
  /\ UNCHANGED <<parseVars, frameVars, styleVars>>

\* lines 100-104: the piece does not fit, the wrap scan starts
BeginScan ==
  /\ pc = "fold"
  /\ i <= Len(Pieces(message))
  /\ Overflows(Last(lines).width, measure_text(kerned, Piece.text).width, max_width)
  /\ start' = 0
  /\ end' = 0
  /\ pc' = "scan"
  /\ UNCHANGED <<message, max_width, kerned, i, lines, origin>>
  /\ UNCHANGED <<parseVars, frameVars, styleVars>>

\* the measurement of line 106 and the test of line 107, in one scan iteration
ScanDimen == measure_text(kerned, Slice(Piece.text, start, end + 1))

ScanAccepts == ScanFits(Last(lines).width, ScanDimen.width, max_width)

\* lines 106-110: the prefix grows and the loop continues
ScanContinue ==
  /\ pc = "scan"
  /\ ScanAccepts
  /\ end + 1 # Len(Piece.text) - 1
  /\ end' = end + 1
  /\ UNCHANGED <<message, max_width, kerned, i, lines, origin, start, pc>>
  /\ UNCHANGED <<parseVars, frameVars, styleVars>>

\* lines 106-122, and 130-133 on leaving the loop: the iteration that commits
\* text[start..end] with the Dimen just measured and opens a new line
ScanCommit ==
  /\ pc = "scan"
  /\ Len(lines) < MaxLines
  /\ LET end2 == IF ScanAccepts THEN end + 1 ELSE end
         committed == Append(PushFragment(lines, Slice(Piece.text, start, end2),
                                          Piece.attributes, ScanDimen),
                             LineDefault)
     IN /\ ScanAccepts => end2 = Len(Piece.text) - 1
        /\ IF end2 = Len(Piece.text) - 1
           THEN /\ lines' = BreakIf(Piece.newline, committed)
                /\ origin' = NoteFragment(origin, i, lines')
                /\ i' = i + 1
                /\ pc' = "fold"
                /\ UNCHANGED <<start, end>>
           ELSE /\ lines' = committed
                /\ origin' = NoteFragment(origin, i, lines')
                /\ start' = end2
                /\ end' = end2
                /\ UNCHANGED <<i, pc>>
  /\ UNCHANGED <<message, max_width, kerned>>
  /\ UNCHANGED <<parseVars, frameVars, styleVars>>

\* line 134: the fold has consumed every piece
EndFold ==
  /\ pc = "fold"
  /\ i > Len(Pieces(message))
  /\ pc' = "done"
  /\ UNCHANGED <<message, max_width, kerned, i, lines, origin, start, end>>
  /\ UNCHANGED <<parseVars, frameVars, styleVars>>

H_PADDING == 16
V_PADDING == 16
LINE_SPACING == 4

DrawCall(l, text, attributes, x, y) ==
  [line |-> l, text |-> text, attributes |-> attributes, x |-> x, y |-> y]

\* lines 139-151: the fragments of line l from x on, up to the first empty
\* text, where the loop breaks
RECURSIVE DrawSegments(_, _, _, _, _)
DrawSegments(segs, l, x, y, height) ==
  IF segs = <<>> THEN <<>>
  ELSE IF Head(segs).text = <<>> THEN <<>>
  ELSE <<DrawCall(l, Head(segs).text, Head(segs).attributes,
                  x, y + height - Head(segs).dimen.height)>>
       \o DrawSegments(Tail(segs), l, x + Head(segs).dimen.width, y, height)

\* lines 136-153: the lines from line l on, the vertical cursor being y
RECURSIVE DrawFrom(_, _, _)
DrawFrom(ls, l, y) ==
  IF l > Len(ls) THEN <<>>
  ELSE DrawSegments(ls[l].segments, l, H_PADDING, y, ls[l].height)
       \o DrawFrom(ls, l + 1, y + ls[l].height + LINE_SPACING)

\* lines 135-153: the draw loop; y is counted from the top of the dialog box
DrawLines ==
  /\ pc = "done"
  /\ drawn' = DrawFrom(lines, 1, V_PADDING)
  /\ pc' = "drawn"
  /\ UNCHANGED <<message, max_width, kerned, i, lines, origin, start, end>>
  /\ UNCHANGED <<dialog, index, previous>>
  /\ UNCHANGED <<parseVars, styleVars>>

NextLayout ==
  \/ AppendPiece
  \/ BeginScan
  \/ ScanContinue
  \/ ScanCommit
  \/ EndFold
  \/ DrawLines

SpecLayout == InitLayout /\ [][NextLayout]_vars

\* ------------------------------------------------------------------ reveal
\* PrettyString::up_to (not in the source; after the reveal-truncation
\* contract): the prefix of exactly n characters, a run being cut where the
\* boundary falls inside it and keeping its style
RECURSIVE up_to(_, _)
up_to(ps, n) ==
  IF ps = <<>> \/ n = 0 THEN <<>>
  ELSE IF Len(Head(ps).text) <= n
       THEN <<Head(ps)>> \o up_to(Tail(ps), n - Len(Head(ps).text))
       ELSE <<Run(SubSeq(Head(ps).text, 1, n), Head(ps).attributes)>>

\* lines 68-73: the segments of a render call
RevealedSegments(ps, idx) == IF idx = NoIndex THEN ps ELSE up_to(ps, idx[1])

\* the first render call of a dialog revealed from its first character on,
\* measured by the additive oracle
InitReveal ==
  /\ dialog \in LayoutMessages
  /\ index = Some(0)
  /\ message = RevealedSegments(dialog, Some(0))
  /\ max_width \in 0..MaxW
  /\ kerned = FALSE
  /\ i = 1
  /\ lines = <<LineDefault>>
  /\ origin = <<<<>>>>
  /\ start = 0
  /\ end = 0
  /\ pc = "fold"
  /\ drawn = <<>>
  /\ previous = <<>>
  /\ ParseIdle
  /\ StyleIdle

\* the next render call, the reveal cursor having moved on by one character
NextFrame ==
  /\ pc = "drawn"
  /\ index # NoIndex
  /\ index[1] < len(dialog)
  /\ index' = Some(index[1] + 1)
  /\ message' = RevealedSegments(dialog, Some(index[1] + 1))
  /\ previous' = lines
  /\ i' = 1
  /\ lines' = <<LineDefault>>
  /\ origin' = <<<<>>>>
  /\ start' = 0
  /\ end' = 0
  /\ pc' = "fold"
  /\ drawn' = <<>>
  /\ UNCHANGED <<dialog, max_width, kerned>>
  /\ UNCHANGED <<parseVars, styleVars>>

NextReveal ==
  \/ NextLayout
  \/ NextFrame

SpecReveal == InitReveal /\ [][NextReveal]_vars

\* ========================================================= style composition
\* the styles over two fonts and two colors, each possibly unset
Styles == {Attributes(f, c) : f \in {None, "F", "G"}, c \in {None, "RED", "BLUE"}}

InitStyle ==
  /\ operands \in Styles \X Styles \X Styles
  /\ composed = [pair |-> <<>>, left |-> <<>>, right |-> <<>>]
  /\ rule_table = RULES
  /\ input = <<>>
  /\ string = <<>>
  /\ tokens = <<>>
  /\ segments = <<>>
  /\ rules = <<>>
  /\ segment = <<>>
  /\ result = "Ok"
  /\ LayoutIdle

\* A.override_with(&B)
ComposePair ==
  /\ composed.pair = <<>>
  /\ composed' = [composed EXCEPT !.pair = <<override_with(operands[1], operands[2])>>]
  /\ UNCHANGED <<operands, parseVars, layoutVars, frameVars>>

\* A.override_with(&B).override_with(&C)
ComposeLeft ==
  /\ composed.left = <<>>
  /\ composed' =
       [composed EXCEPT
          !.left = <<override_with(override_with(operands[1], operands[2]), operands[3])>>]
  /\ UNCHANGED <<operands, parseVars, layoutVars, frameVars>>

\* A.override_with(&B.override_with(&C))
ComposeRight ==
  /\ composed.right = <<>>
  /\ composed' =
       [composed EXCEPT
          !.right = <<override_with(operands[1], override_with(operands[2], operands[3]))>>]
  /\ UNCHANGED <<operands, parseVars, layoutVars, frameVars>>

NextStyle ==
  \/ ComposePair
  \/ ComposeLeft
  \/ ComposeRight

SpecStyle == InitStyle /\ [][NextStyle]_vars

\* ------------------------------------------------------- claims, the parser
Finished == result # "Running"

\* C2: wherever the tokenizer, in its default state, stands before "<<" or
\* "<>" (also when these are the last two characters), the turn yields the
\* single token Text("<") or Text(">"), consumes exactly those two characters
\* and does not fail; so the inputs "<<" and "<>" tokenize to one literal.
C2_EscapeIsOneLiteral ==
  [][(/\ result = "Running"
      /\ Len(string) >= 2
      /\ string[1] = "<"
      /\ string[2] \in {"<", ">"})
     => (/\ tokens' = Append(tokens, Text(<<string[2]>>))
         /\ string' = SubSeq(string, 3, Len(string))
         /\ result' = "Running")]_vars

IsPlain(s) == \A k \in 1..Len(s) : s[k] \notin {"<", ">"}

\* input = "<" name ":" content ">" with a known name and plain, non-empty content
IsTagged(name, content) ==
  /\ name \in DOMAIN rule_table
  /\ content # <<>>
  /\ IsPlain(content)
  /\ input = <<"<">> \o name \o <<":">> \o content \o <<">">>

\* C3: a bare ">" read in the default state, at any position including the
\* last, yields exactly one EndSegment token; and a message "<name:content>"
\* with a known name and plain content parses to the single run
\* (content, style of name).
C3_BareCloseEndsSegment ==
  /\ [][(result = "Running" /\ string # <<>> /\ Head(string) = ">")
        => tokens' = Append(tokens, EndSegment)]_vars
  /\ [](\A name \in DOMAIN rule_table :
          LET content == SubSeq(input, Len(name) + 3, Len(input) - 1)
          IN (Finished /\ IsTagged(name, content))
             => (result = "Ok" /\ segments = <<Run(content, rule_table[name])>>))

\* C4: with a = {color: red} and b = {font: F} in the rule table,
\* "<a:<b:X>Y>" parses to ("X", {F, red}) then ("Y", {unset, red}); and every
\* run carries the fold, outermost first, of the rules open at its flush.
C4_NestedStyles ==
  /\ [](Finished /\ input = NestExample /\ rule_table = NestRules
        => /\ result = "Ok"
           /\ segments = <<Run(<<"X">>, Attributes("F", "RED")),
                           Run(<<"Y">>, Attributes(None, "RED"))>>)
  /\ [][(Len(segments') = Len(segments) + 1)
        => Last(segments').attributes = resolve_rules(rule_table, rules).attrs]_vars

OpensUnknownRule ==
  \E k \in 1..Len(tokens) :
    tokens[k].t = "StartSegment" /\ tokens[k].v \notin DOMAIN rule_table

\* C10: a parse that opens a tag whose name is not in the rule table ends with
\* the UnknownRule error and no styled text, whether or not text is flushed
\* while the tag is open.
C10_UnknownRuleFails ==
  (Finished /\ OpensUnknownRule) => result = "UnknownRule"

\* C11: a bare ">" read while the rule stack is empty, also as the whole input
\* ">", ends the parse with the UnbalancedClose error.
C11_UnbalancedClose ==
  [][(result = "Running" /\ string # <<>> /\ Head(string) = ">" /\ rules = <<>>)
     => result' = "UnbalancedClose"]_vars

\* C12: a parse ends in one of four ways: a styled text, MalformedMarkup,
\* UnknownRule or UnbalancedClose.
C12_FourOutcomes ==
  Finished => result \in {"Ok", "MalformedMarkup", "UnknownRule", "UnbalancedClose"}

\* C13: when the tokenizer, in its default state, reads "<" followed by ":",
\* the parse ends with MalformedMarkup and never returns a styled text, also
\* when text came before the malformed tag.
C13_MalformedMarkup ==
  /\ [][(result = "Running" /\ Len(string) >= 2 /\ string[1] = "<" /\ string[2] = ":")
        => result' = "MalformedMarkup"]_vars
  /\ [][result = "MalformedMarkup" => result' = "MalformedMarkup"]_vars

C13_Witness ==
  /\ result = "MalformedMarkup"
  /\ segment # <<>>
  /\ Len(string) >= 2
  /\ string[1] = "<"
  /\ string[2] = ":"

TextTokens == Cardinality({k \in 1..Len(tokens) : tokens[k].t = "Text"})

\* C14: after a successful parse the length of the styled text is the number
\* of Text tokens the tokenizer yielded; with a rule red, the length of the
\* parse of "ab<red:cd>ef" is 6.
C14_LenExcludesMarkup ==
  /\ result = "Ok" => len(segments) = TextTokens
  /\ (Finished /\ input = LenExample /\ rule_table = RedRules)
     => (result = "Ok" /\ len(segments) = 6)

C14_Witness ==
  /\ result = "Ok"
  /\ input = LenExample
  /\ Len(segments) = 3
  /\ len(segments) = 6

AtEndWithOpenTags == result = "Running" /\ string = <<>> /\ rules # <<>>

FlushedAtEnd ==
  /\ result' = "Ok"
  /\ segments' = IF segment = <<>> THEN segments
                 ELSE Append(segments, Run(segment, resolve_rules(rule_table, rules).attrs))

\* C15, as stated: an input that ends with tags still open parses without
\* error, the buffered text becoming a last run styled by the open rules.
C15_UnclosedTolerated ==
  [][AtEndWithOpenTags => FlushedAtEnd]_vars

OpenRulesKnown == \A k \in 1..Len(rules) : rules[k] \in DOMAIN rule_table

\* C15, amended: an input that ends with tags still open, each of them named
\* in the rule table or no text being buffered, parses without error, the
\* buffered text becoming a last run styled by the open rules; "<blue:abc"
\* parses to the single run ("abc", blue).
C15_UnclosedKnownTolerated ==
  /\ [][(AtEndWithOpenTags /\ (OpenRulesKnown \/ segment = <<>>)) => FlushedAtEnd]_vars
  /\ []((Finished /\ input = UnclosedBlue /\ rule_table = RULES)
        => (result = "Ok" /\ segments = <<Run(<<"a", "b", "c">>, Attributes(None, "BLUE"))>>))

C15_Witness ==
  /\ result = "Ok"
  /\ input = UnclosedBlue
  /\ rules = <<<<"b", "l", "u", "e">>>>
  /\ Len(segments) = 1

\* C19: the name of every StartSegment token is non-empty and holds none of
\* ":", "<", ">".
C19_TagNameGrammar ==
  \A k \in 1..Len(tokens) :
    tokens[k].t = "StartSegment"
    => /\ tokens[k].v # <<>>
       /\ \A j \in 1..Len(tokens[k].v) : tokens[k].v[j] \notin {":", "<", ">"}

\* ------------------------------------------------------- claims, the layout
Done == pc = "done"

WithoutNewlines(text) == SelectSeq(text, LAMBDA c : c # "\n")

MessageText == Concat([r \in 1..Len(message) |-> WithoutNewlines(message[r].text)])

LineText(line) == Concat([k \in 1..Len(line.segments) |-> line.segments[k].text])

LaidOutText == Concat([l \in 1..Len(lines) |-> LineText(lines[l])])

Newlines == Len(Concat([r \in 1..Len(message) |-> message[r].text])) - Len(MessageText)

\* every wrap-scan commit opens one line, every newline another
Wrapped == Len(lines) > 1 + Newlines

NonEmptyFragments(l) == {k \in 1..Len(lines[l].segments) : lines[l].segments[k].text # <<>>}

SingleRun == Len(message) = 1 /\ WithoutNewlines(message[1].text) = message[1].text

\* C1: when wrapping occurs, the fragment texts of all lines, in line order
\* then fragment order, concatenate to the run texts without their newlines;
\* and a single run one unit wider than W is split into at least two
\* fragments on at least two lines.
C1_TextConserved ==
  (Done /\ Wrapped)
  => /\ LaidOutText = MessageText
     /\ (SingleRun /\ measure_text(kerned, message[1].text).width = max_width + 1)
        => Cardinality({l \in 1..Len(lines) : NonEmptyFragments(l) # {}}) >= 2

Measured(text, attributes) == Fragment(text, attributes, measure_text(kerned, text))

\* C5: [("Hello ", default), ("world", blue)] with a width that fits "Hello "
\* but not "Hello w" gives exactly two lines, the first holding the single
\* fragment "Hello ", the second the single fragment "world", each with its
\* own measured width and height.
C5_HelloWorld ==
  (Done /\ message = HelloWorld /\ max_width = HelloWidth)
  => /\ Len(lines) = 2
     /\ lines[1].segments = <<Measured(HelloWorld[1].text, DefaultAttributes)>>
     /\ lines[2].segments = <<Measured(HelloWorld[2].text, BlueAttributes)>>

\* C6: the layout pass terminates for every styled text, width and oracle,
\* also when a single character is wider than W.  The scan of one piece is
\* deterministic in start, end and the width of the current line, so it ends
\* only if no iteration hands the next one the state it began in.
C6_LayoutTerminates ==
  [][(pc = "scan" /\ pc' = "scan")
     => <<start', end', Last(lines').width>> # <<start, end, Last(lines).width>>]_vars

LineOwnWidth(line) ==
  SumSeq([k \in 1..Len(line.segments) |-> measure_text(kerned, line.segments[k].text).width])

EveryCharFits ==
  \A r \in 1..Len(message) :
    \A k \in 1..Len(message[r].text) :
      message[r].text[k] # "\n" => measure_text(kerned, <<message[r].text[k]>>).width <= max_width

\* C7: when every single character measures at most W, the measured widths
\* of the texts of the fragments of a line never add up to more than W.
C7_BoundedLineWidth ==
  EveryCharFits => \A l \in 1..Len(lines) : LineOwnWidth(lines[l]) <= max_width

C7_Witness ==
  /\ Done
  /\ EveryCharFits
  /\ Wrapped
  /\ \E l \in 1..Len(lines) :
       /\ Len(lines[l].segments) >= 2
       /\ LineOwnWidth(lines[l]) = max_width

\* the number of sub-pieces of the runs up to run r, from the newlines of the text
PiecesUpTo(r) ==
  SumSeq([q \in 1..r |-> 1 + Len(message[q].text) - Len(WithoutNewlines(message[q].text))])

\* sub-piece k is followed by a newline of its run
EndsAtNewline(k) == \A r \in 1..Len(message) : k # PiecesUpTo(r)

NewlineBetween(p, q) == \E k \in p..(q - 1) : EndsAtNewline(k)

\* C8: a fragment of a sub-piece that comes after a newline is on a later
\* line than every fragment of a sub-piece before that newline; and a single
\* run with k newlines whose sub-pieces all fit is laid out on k + 1 lines,
\* one sub-piece each.
C8_HardBreaks ==
  /\ \A l1 \in 1..Len(lines) : \A l2 \in 1..Len(lines) :
       \A x \in 1..Len(origin[l1]) : \A y \in 1..Len(origin[l2]) :
         (origin[l1][x] < origin[l2][y] /\ NewlineBetween(origin[l1][x], origin[l2][y]))
         => l1 < l2
  /\ (/\ Done
      /\ Len(message) = 1
      /\ \A k \in 1..Len(Split(message[1].text)) :
           measure_text(kerned, Split(message[1].text)[k]).width <= max_width)
     => /\ Len(lines) = Newlines + 1
        /\ \A l \in 1..Len(lines) :
             lines[l].segments = <<Measured(Split(message[1].text)[l], message[1].attributes)>>

C8_Witness ==
  /\ Done
  /\ Len(message) = 1
  /\ message[1].text = <<"a", "\n", "b">>
  /\ Len(lines) = 2
  /\ LineText(lines[1]) = <<"a">>
  /\ LineText(lines[2]) = <<"b">>

\* C9: a piece goes whole on the current line, with no break before it and no
\* scan, exactly when current.width + piece.width <= W; and a single run
\* without newlines that measures exactly W gives one line holding the whole
\* run as one fragment.
C9_ExactFit ==
  /\ [][(pc = "fold" /\ i <= Len(Pieces(message)))
        => LET d == measure_text(kerned, Piece.text)
           IN (Last(lines).width + d.width <= max_width)
              <=> /\ pc' = "fold"
                  /\ Len(lines') = Len(lines) + (IF EndsAtNewline(i) THEN 1 ELSE 0)
                  /\ lines'[Len(lines)].segments =
                       Append(Last(lines).segments, Fragment(Piece.text, Piece.attributes, d))]_vars
  /\ []((Done /\ SingleRun /\ measure_text(kerned, message[1].text).width = max_width)
        => /\ Len(lines) = 1
           /\ lines[1].segments = <<Measured(message[1].text, message[1].attributes)>>)

C9_Witness ==
  /\ Done
  /\ SingleRun
  /\ Len(message[1].text) >= 2
  /\ measure_text(kerned, message[1].text).width = max_width
  /\ Len(lines) = 1
  /\ Len(lines[1].segments) = 1

\* the cap on the lines is reached by a scan that repeats itself, and by nothing else
CapMeansLoop ==
  Len(lines) = MaxLines => (pc = "scan" /\ start = end /\ Last(lines).width = 0 /\ ~ScanAccepts)

RECURSIVE MaxSeq(_)
MaxSeq(ns) == IF ns = <<>> THEN 0 ELSE Max(Head(ns), MaxSeq(Tail(ns)))

\* C17: every fragment on a line carries the width and height the oracle
\* gives for the fragment's own text, also a fragment committed by the wrap
\* scan when the next character overflowed; and the height of a line is the
\* largest measured height of the texts of its fragments.
C17_MeasuredGeometry ==
  \A l \in 1..Len(lines) :
    /\ \A k \in 1..Len(lines[l].segments) :
         lines[l].segments[k].dimen = measure_text(kerned, lines[l].segments[k].text)
    /\ lines[l].height =
         MaxSeq([k \in 1..Len(lines[l].segments) |->
                   measure_text(kerned, lines[l].segments[k].text).height])

\* the draw calls of line l, as text and x
DrawnOn(l) ==
  LET calls == SelectSeq(drawn, LAMBDA c : c.line = l)
  IN [k \in 1..Len(calls) |-> <<calls[k].text, calls[k].x>>]

\* the fragments of line l from fragment k on that have a text, each with
\* the left padding plus the stored widths of the fragments before it
RECURSIVE ToDraw(_, _)
ToDraw(segs, k) ==
  IF k > Len(segs) THEN <<>>
  ELSE (IF segs[k].text = <<>> THEN <<>>
        ELSE <<<<segs[k].text,
                 H_PADDING + SumSeq([j \in 1..(k - 1) |-> segs[j].dimen.width])>>>>)
       \o ToDraw(segs, k + 1)

\* C18: the renderer draws, for every line, each fragment that has a text
\* exactly once and in order, at x = left padding + the stored widths of the
\* fragments before it, also behind a fragment with an empty text.
C18_EveryFragmentDrawn ==
  pc = "drawn" => \A l \in 1..Len(lines) : DrawnOn(l) = ToDraw(lines[l].segments, 1)

\* the characters of the fragments from fragment k on, each with its x: the
\* left padding, the stored widths of the fragments before its own, and the
\* widths of the characters before it in its fragment
RECURSIVE PlacedFrom(_, _, _)
PlacedFrom(segs, k, x) ==
  IF k > Len(segs) THEN <<>>
  ELSE [j \in 1..Len(segs[k].text) |->
          <<segs[k].text[j], x + TextWidth(SubSeq(segs[k].text, 1, j - 1))>>]
       \o PlacedFrom(segs, k + 1, x + segs[k].dimen.width)

Placed(line) == PlacedFrom(line.segments, 1, H_PADDING)

IsPrefix(a, b) == Len(a) <= Len(b) /\ SubSeq(b, 1, Len(a)) = a

PlacedText(ls) == Concat([l \in 1..Len(ls) |-> LineText(ls[l])])

\* the character the reveal cursor has just passed
Revealed == Concat([r \in 1..Len(dialog) |-> dialog[r].text])[index[1]]

\* C20: from one render call to the next, the reveal cursor having grown by
\* one, every character placed before is placed on the same line at the same
\* x, and the placed text grows by exactly the revealed character (by
\* nothing when that is a newline).
C20_RevealStable ==
  (pc = "done" /\ previous # <<>>)
  => /\ \A l \in 1..Len(previous) :
          Placed(previous[l]) # <<>>
          => (l <= Len(lines) /\ IsPrefix(Placed(previous[l]), Placed(lines[l])))
     /\ PlacedText(lines) =
          PlacedText(previous) \o (IF Revealed = "\n" THEN <<>> ELSE <<Revealed>>)

\* ---------------------------------------------- claims, the style composition
\* C16: over fonts and colors that may be unset, override_with is
\* associative, each field of A.override_with(B) is B's when B sets it and
\* A's otherwise, and the all-unset style is a left and a right identity.
C16_OverrideAlgebra ==
  LET A == operands[1]
      B == operands[2]
  IN /\ (composed.left # <<>> /\ composed.right # <<>>) => composed.left = composed.right
     /\ composed.pair # <<>>
        => /\ composed.pair[1].font = (IF B.font # None THEN B.font ELSE A.font)
           /\ composed.pair[1].color = (IF B.color # None THEN B.color ELSE A.color)
           /\ (B = DefaultAttributes => composed.pair[1] = A)
           /\ (A = DefaultAttributes => composed.pair[1] = B)

C16_Witness ==
  /\ operands[1] = Attributes("F", "RED")
  /\ operands[2] = Attributes("G", None)
  /\ operands[3] = Attributes(None, "BLUE")
  /\ composed.pair = <<Attributes("G", "RED")>>
  /\ composed.left = <<Attributes("G", "BLUE")>>
  /\ composed.right = composed.left

====
